---- MODULE Spec2Model ----
(***************************************************************************)
(* Model of script.js (Galenica Online): the event-driven interaction      *)
(* layer.  State is the part of the DOM the controllers read and write,    *)
(* the closure variables of the throttle wrappers and the browser's timer  *)
(* queue.  One action is the complete dispatch of one browser event: every *)
(* listener the script registered for it runs, in registration order.      *)
(***************************************************************************)
EXTENDS Integers, Sequences, FiniteSets, TLC

(***************************************************************************)
(* Bounds of the model                                                     *)
(***************************************************************************)
\* number of .faq-item__question elements in the page
NQuestions == 3
\* most setTimeout callbacks of updateFocus pending at once
MaxTimers == 2
\* most history.pushState entries pushed in one behaviour
MaxHistory == 2
\* wrapper calls counted within one cooldown
MaxCalls == 5
\* grid-item cards inside the observed section
NCards == 2
\* most entries one IntersectionObserver callback receives
MaxBatch == 2

Questions == 1..NQuestions
\* elements an in-page fragment can resolve to
Targets == {"t1", "t2"}
\* what the href of the clicked a[href^="#"] is: not an anchor at all, the
\* bare "#", a fragment no element matches, or a fragment matching a target
Anchors == {"none", "bare", "unresolved"} \cup Targets
\* where the click target sits relative to .mobile-menu-btn and #mobile-menu
Regions == {"trigger", "menuLink", "menuOther", "outside"}
Keys == {"Escape", "Enter", " ", "a"}
Widths == {767, 768, 1024}
Offsets == {0, 10, 11, 300, 301}
OffsetTops == {0, 1000}
HeaderHeights == {0, 80}
ScrollHeights == {0, 120}
TabindexValues == {"none", "-1", "0"}
\* the observed .section and the grid-item cards it contains, in document
\* order; every card is observed on its own as well
Section == 0
Cards == 1..NCards
Elements == {Section} \cup Cards
\* functions Utils.debounce may be asked to wrap, and their wait and immediate
Debounced == {"d1", "d2"}
Waits == {100, 250}

(***************************************************************************)
(* Program constants                                                       *)
(***************************************************************************)
MenuBreakpoint == 768
ScrollTopThreshold == 300
HeaderThreshold == 10
ScrollTopLimit == 100
HeaderLimit == 10
AnchorGap == 20
FocusCleanupDelay == 1000
StaggerStep == 100

VARIABLES
    triggerPresent, \* .mobile-menu-btn exists
    containerPresent, \* #mobile-menu exists
    iconPresent,    \* the trigger contains an <i>
    menu,           \* aria-expanded, class active, icon classes, body overflow
    faq,            \* per question: aria-expanded, classes, answer max-height
    scrollHeight,   \* per answer: its scrollHeight
    pageYOffset,    \* window.pageYOffset
    headerPresent,  \* .header exists
    headerHeight,   \* its offsetHeight
    headerScrolled, \* .header has class scrolled
    lastScrollTop,  \* HeaderScroll.lastScrollTop
    btnPresent,     \* #scrollTop exists
    btn,            \* its class visible and aria-hidden
    skipLinkPresent,\* .skip-link exists
    inThrottle,     \* closure variable of each throttle wrapper
    timers,         \* pending setTimeout callbacks, in firing order
    offsetTop,      \* per target: its offsetTop
    tabindex,       \* per target: its tabindex attribute
    tabindex0,      \* per target: the tabindex attribute of the markup
    focus,          \* document.activeElement
    scrollToArg,    \* top of the last window.scrollTo call
    locationHash,   \* fragment of the current history entry
    historyLen,     \* entries pushed by history.pushState
    defaultPrevented, \* the last event had preventDefault called
    thrown,         \* a listener of the last event threw
    throttleLog,    \* per wrapper: runs of func and dropped calls in this cooldown
    effects,        \* what the last anchor click did, in the order it did it
    revealed,       \* elements with class animate-fade-in
    observed,       \* elements the IntersectionObserver observes
    entries,        \* the entries the last IntersectionObserver callback got
    debounce,       \* per function: the closure of its Utils.debounce wrapper
    scriptEvaluated,   \* the script ran to its end
    domContentLoaded,  \* DOMContentLoaded was dispatched
    initLog,        \* the init() calls made so far, in order
    lastEvent       \* the event whose dispatch produced this state

vars == <<triggerPresent, containerPresent, iconPresent, menu, faq, scrollHeight, pageYOffset,
          headerPresent, headerHeight, headerScrolled, lastScrollTop,
          btnPresent, btn, skipLinkPresent, inThrottle, timers, offsetTop,
          tabindex, focus, scrollToArg, locationHash, historyLen,
          defaultPrevented, thrown, throttleLog, lastEvent, tabindex0,
          effects, revealed, observed, entries, debounce, scriptEvaluated,
          domContentLoaded, initLog>>

domVars == <<triggerPresent, containerPresent, iconPresent, headerPresent, headerHeight,
             btnPresent, skipLinkPresent, scrollHeight, offsetTop, tabindex0>>
menuVars == <<menu>>
faqVars == <<faq>>
scrollVars == <<pageYOffset, headerScrolled, lastScrollTop, btn, inThrottle,
                throttleLog>>
anchorVars == <<tabindex, focus, scrollToArg, locationHash, historyLen>>
revealVars == <<revealed, observed, entries>>
debounceVars == <<debounce>>
loadVars == <<scriptEvaluated, domContentLoaded, initLog>>

Max(a, b) == IF a >= b THEN a ELSE b
Min(a, b) == IF a <= b THEN a ELSE b

\* String(n) + 'px'
Px(n) == ToString(n) \o "px"

\* String(b) as setAttribute stores a boolean
BoolAttr(b) == IF b THEN "true" ELSE "false"

(***************************************************************************)
(* MobileMenu                                                              *)
(***************************************************************************)
\* the condition under which init binds the menu's listeners
menuPresent == triggerPresent /\ containerPresent

\* classList.toggle on the icon, skipped when the trigger has no <i>
toggleIcon(m) ==
    IF iconPresent
    THEN [m EXCEPT !.faBars = ~m.faBars, !.faTimes = ~m.faTimes]
    ELSE m

resetIcon(m) ==
    IF iconPresent
    THEN [m EXCEPT !.faBars = TRUE, !.faTimes = FALSE]
    ELSE m

toggleMenu(m) ==
    LET isExpanded == m.ariaExpanded = "true"
        m1 == [m EXCEPT !.ariaExpanded = BoolAttr(~isExpanded),
                        !.active = ~m.active]
        m2 == toggleIcon(m1)
    IN  [m2 EXCEPT !.overflow = IF ~isExpanded THEN "hidden" ELSE ""]

\* closeMenu that leaves the body scroll lock in place
closeMenuKeepsLock(m) ==
    resetIcon([m EXCEPT !.ariaExpanded = "false", !.active = FALSE])

closeMenu(m) ==
    LET m1 == [m EXCEPT !.ariaExpanded = "false", !.active = FALSE]
        m2 == resetIcon(m1)
    IN  [m2 EXCEPT !.overflow = ""]

\* closeMenu called from handleAnchorClick when init found an element missing:
\* the first dereference of a null reference throws, what ran before stays
closeMenuThrows == ~menuPresent

closeMenuPartial(m) ==
    IF triggerPresent THEN [m EXCEPT !.ariaExpanded = "false"] ELSE m

(***************************************************************************)
(* FAQ                                                                     *)
(***************************************************************************)
\* animateHeight that drops the unit of the expanded height
animateHeightNoUnit(a, q, expand) ==
    IF expand
    THEN [a EXCEPT !.maxHeight = ToString(scrollHeight[q])]
    ELSE [a EXCEPT !.maxHeight = "0px"]

animateHeight(a, q, expand) ==
    IF expand
    THEN [a EXCEPT !.maxHeight = Px(scrollHeight[q])]
    ELSE [a EXCEPT !.maxHeight = "0px"]

\* closeAllFAQs that does not reset the answers' height
closeAllFAQsKeepsHeight(f) ==
    [q \in Questions |->
        [f[q] EXCEPT !.ariaExpanded = "false", !.qActive = FALSE,
                     !.aActive = FALSE]]

closeAllFAQs(f) ==
    [q \in Questions |->
        animateHeight([f[q] EXCEPT !.ariaExpanded = "false",
                                   !.qActive = FALSE,
                                   !.aActive = FALSE], q, FALSE)]

\* toggleFAQ that collapses only the question it was called on
toggleFAQOnlyOwn(f, q) ==
    IF f[q].ariaExpanded # "true"
    THEN [f EXCEPT ![q] = animateHeight(
             [f[q] EXCEPT !.ariaExpanded = "true", !.qActive = TRUE,
                          !.aActive = TRUE], q, TRUE)]
    ELSE [f EXCEPT ![q] = animateHeight(
             [f[q] EXCEPT !.ariaExpanded = "false", !.qActive = FALSE,
                          !.aActive = FALSE], q, FALSE)]

\* toggleFAQ that leaves the answer without its class
toggleFAQNoAnswerClass(f, q) ==
    LET f1 == closeAllFAQs(f)
    IN  IF f[q].ariaExpanded # "true"
        THEN [f1 EXCEPT ![q] = animateHeight(
                 [f1[q] EXCEPT !.ariaExpanded = "true", !.qActive = TRUE],
                 q, TRUE)]
        ELSE f1

toggleFAQ(f, q) ==
    LET isExpanded == f[q].ariaExpanded = "true"
        f1 == closeAllFAQs(f)
    IN  IF ~isExpanded
        THEN [f1 EXCEPT ![q] = animateHeight(
                 [f1[q] EXCEPT !.ariaExpanded = "true",
                               !.qActive = TRUE,
                               !.aActive = TRUE], q, TRUE)]
        ELSE f1

(***************************************************************************)
(* throttle, ScrollToTop, HeaderScroll                                     *)
(***************************************************************************)
Wrappers == {"top", "hdr"}

Limit(k) == IF k = "top" THEN ScrollTopLimit ELSE HeaderLimit

\* one call of the wrapper throttle(func, limit) returned, with closure
\* variable it: whether func runs, the new closure variable, the delays of
\* the timeouts it sets
\* throttle that never sets its flag
throttleNoFlag(limit, it) ==
    [run |-> TRUE, inThrottle |-> it, delays |-> <<limit>>]

throttle(limit, it) ==
    IF ~it
    THEN [run |-> TRUE, inThrottle |-> TRUE, delays |-> <<limit>>]
    ELSE [run |-> FALSE, inThrottle |-> it, delays |-> <<>>]

\* HeaderScroll.throttle, the same function written a second time
headerThrottle(limit, it) ==
    IF ~it
    THEN [run |-> TRUE, inThrottle |-> TRUE, delays |-> <<limit>>]
    ELSE [run |-> FALSE, inThrottle |-> it, delays |-> <<>>]

\* the wrapper is registered for scroll only when init found its element
Bound(k) == IF k = "top" THEN btnPresent ELSE headerPresent

toggleVisibility(b, y) ==
    IF y > ScrollTopThreshold
    THEN [b EXCEPT !.visible = TRUE, !.ariaHidden = "false"]
    ELSE [b EXCEPT !.visible = FALSE, !.ariaHidden = "true"]

\* document.documentElement.scrollTop, the same scroll position
documentScrollTop(y) == y

\* window.pageYOffset || document.documentElement.scrollTop
readScrollTop(y) == IF y # 0 THEN y ELSE documentScrollTop(y)

handleScroll(y) ==
    [scrolled |-> readScrollTop(y) > HeaderThreshold,
     lastScrollTop |-> readScrollTop(y)]

(***************************************************************************)
(* Timers: setTimeout callbacks fire in order of due time, ties in order   *)
(* of creation, never early and possibly late                              *)
(***************************************************************************)
Timer(kind, arg, delay) == [kind |-> kind, arg |-> arg, rem |-> delay]

setTimeout(ts, t) ==
    LET before == Cardinality({i \in DOMAIN ts : ts[i].rem <= t.rem})
    IN  SubSeq(ts, 1, before) \o <<t>> \o SubSeq(ts, before + 1, Len(ts))

Pending(kind) == Cardinality({i \in DOMAIN timers : timers[i].kind = kind})

(***************************************************************************)
(* SmoothScrolling                                                         *)
(***************************************************************************)
\* document.querySelector('.header')?.offsetHeight || 0
headerOffset ==
    IF headerPresent /\ headerHeight # 0 THEN headerHeight ELSE 0

\* targetPosition that ignores the header
targetPositionNoHeader(t) == offsetTop[t] - AnchorGap

targetPosition(t) == offsetTop[t] - headerOffset - AnchorGap

\* document.querySelector(targetId) throws on the bare '#'
querySelectorThrows(a) == a = "bare"

\* handleAnchorClick that starts the scroll before it closes the menu
handleAnchorClickStepsScrollFirst ==
    <<"scrollTo", "closeMenu", "updateFocus", "pushState">>

\* what handleAnchorClick does once the target resolved, in statement order
handleAnchorClickSteps ==
    <<"closeMenu", "scrollTo", "updateFocus", "pushState">>

\* the statements of handleAnchorClick that ran: all of them, or those up to
\* the closeMenu call that threw
stepsDone(throws) ==
    LET at == CHOOSE i \in DOMAIN handleAnchorClickSteps :
                  handleAnchorClickSteps[i] = "closeMenu"
    IN  IF throws THEN SubSeq(handleAnchorClickSteps, 1, at)
        ELSE handleAnchorClickSteps

\* the first half of updateFocus: the attribute after the hasAttribute test
updateFocus(tab, t) ==
    IF tab[t] = "none" THEN [tab EXCEPT ![t] = "-1"] ELSE tab

\* the timeout callback of updateFocus
focusCleanup(tab, t) ==
    IF tab[t] = "-1" THEN [tab EXCEPT ![t] = "none"] ELSE tab

(***************************************************************************)
(* ScrollAnimations                                                        *)
(***************************************************************************)
\* what observeElements registers: the sections and the cards
observeElements == Elements

\* target.querySelectorAll of the grid-item classes, in document order
gridItems(target) ==
    IF target = Section THEN [i \in 1..NCards |-> i] ELSE <<>>

\* the forEach of addStaggeredAnimation from item number index + 1 on
RECURSIVE staggerFrom(_, _, _)
staggerFrom(ts, items, index) ==
    IF index >= Len(items) THEN ts
    ELSE staggerFrom(setTimeout(ts, Timer("stagger", items[index + 1],
                                          index * StaggerStep)),
                     items, index + 1)

addStaggeredAnimation(ts, target) == staggerFrom(ts, gridItems(target), 0)

\* callback that takes the class away again when the element leaves
handleEntryRehides(st, entry) ==
    IF entry.isIntersecting
    THEN [revealed |-> st.revealed \cup {entry.target},
          timers |-> addStaggeredAnimation(st.timers, entry.target),
          observed |-> st.observed \ {entry.target}]
    ELSE [st EXCEPT !.revealed = @ \ {entry.target}]

\* the callback handleIntersection runs on one entry
handleEntry(st, entry) ==
    IF entry.isIntersecting
    THEN [revealed |-> st.revealed \cup {entry.target},
          timers |-> addStaggeredAnimation(st.timers, entry.target),
          observed |-> st.observed \ {entry.target}]
    ELSE st

RECURSIVE handleIntersection(_, _)
handleIntersection(st, es) ==
    IF es = <<>> THEN st
    ELSE handleIntersection(handleEntry(st, Head(es)), Tail(es))

Entry == [target : Elements, isIntersecting : BOOLEAN]

\* the batches one callback can receive
Batches == UNION {[1..n -> Entry] : n \in 1..MaxBatch}

(***************************************************************************)
(* Utils.debounce                                                          *)
(***************************************************************************)
\* no wrapper was made of the function
NoWrapper ==
    [created |-> FALSE, wait |-> 0, immediate |-> FALSE, timeout |-> FALSE,
     called |-> FALSE, idle |-> 0, invoked |-> FALSE]

\* clearTimeout of the timeout of wrapper d
clearTimeout(ts, d) ==
    SelectSeq(ts, LAMBDA t : ~(t.kind = "debounce" /\ t.arg = d))

\* wrapper that sets the new timeout and leaves the old one
debouncedNoClear(c, ts, d) ==
    [callNow |-> c.immediate /\ ~c.timeout,
     timers |-> setTimeout(ts, Timer("debounce", d, c.wait))]

\* one call of the wrapper with closure c: whether func is called now and
\* the timers it leaves
debounced(c, ts, d) ==
    [callNow |-> c.immediate /\ ~c.timeout,
     timers |-> setTimeout(clearTimeout(ts, d), Timer("debounce", d, c.wait))]

\* the timeout callback of the wrapper
later(c) == [timeout |-> FALSE, invoke |-> ~c.immediate]

(***************************************************************************)
(* Initialization                                                          *)
(***************************************************************************)
\* the init() calls at the end of the script
immediateInits == <<"Performance", "ErrorHandler">>

\* listener that initializes HeaderScroll before FAQ
initOrderHeaderFirst ==
    <<"MobileMenu", "ScrollToTop", "SmoothScrolling", "HeaderScroll",
      "ScrollAnimations", "FAQ">>

\* the init() calls of the DOMContentLoaded listener
initOrder ==
    <<"MobileMenu", "ScrollToTop", "SmoothScrolling", "FAQ",
      "ScrollAnimations", "HeaderScroll">>

(***************************************************************************)
(* Events                                                                  *)
(***************************************************************************)
Expanded(f) == {x \in Questions : f[x].ariaExpanded = "true"}

\* an event, with the menu and the expanded questions it was dispatched on
\* and whether the event before it was a click on the trigger
Ev(type, region, anchor, key, q, n) ==
    [type |-> type, region |-> region, anchor |-> anchor, key |-> key,
     q |-> q, n |-> n, menuBefore |-> menu, expandedBefore |-> Expanded(faq),
     afterTrigger |-> (lastEvent.type = "click" /\ lastEvent.region = "trigger")]

\* document click listener that tests the container only
documentClickContainerOnly(m, region) ==
    IF menuPresent /\ region \in {"outside", "trigger"} THEN closeMenu(m) ELSE m

\* the document-level click listener of MobileMenu.bindEvents
documentClick(m, region) ==
    IF menuPresent /\ region = "outside" THEN closeMenu(m) ELSE m

\* keydown listener that closes the menu on any key
documentKeydownAnyKey(m, key) ==
    IF menuPresent THEN closeMenu(m) ELSE m

\* the document-level keydown listener of MobileMenu.bindEvents
documentKeydown(m, key) ==
    IF menuPresent /\ key = "Escape" THEN closeMenu(m) ELSE m

\* resize listener with a strict comparison
windowResizeStrict(m, w) ==
    IF menuPresent /\ w > MenuBreakpoint THEN closeMenu(m) ELSE m

\* the window resize listener of MobileMenu.bindEvents
windowResize(m, w) ==
    IF menuPresent /\ w >= MenuBreakpoint THEN closeMenu(m) ELSE m

TypeOK ==
    /\ triggerPresent \in BOOLEAN /\ containerPresent \in BOOLEAN
    /\ iconPresent \in BOOLEAN
    /\ menu \in [ariaExpanded : {"null", "true", "false"}, active : BOOLEAN,
                 faBars : BOOLEAN, faTimes : BOOLEAN,
                 overflow : {"", "hidden"}]
    /\ DOMAIN faq = Questions
    /\ \A q \in Questions :
          /\ faq[q].ariaExpanded \in {"null", "true", "false"}
          /\ faq[q].qActive \in BOOLEAN /\ faq[q].aActive \in BOOLEAN
    /\ pageYOffset \in Offsets
    /\ inThrottle \in [Wrappers -> BOOLEAN]
    /\ tabindex \in [Targets -> TabindexValues]
    /\ historyLen \in 0..MaxHistory

\* the page as the markup gives it, no event dispatched yet
Page ==
    /\ triggerPresent \in BOOLEAN
    /\ containerPresent \in BOOLEAN
    /\ iconPresent \in BOOLEAN
    /\ (~triggerPresent => ~iconPresent)
    /\ \E a \in {"null", "false"} :
          menu = [ariaExpanded |-> a, active |-> FALSE, faBars |-> TRUE,
                  faTimes |-> FALSE, overflow |-> ""]
    /\ \E a \in {"null", "false"} :
          faq = [q \in Questions |->
                    [ariaExpanded |-> a, qActive |-> FALSE,
                     aActive |-> FALSE, maxHeight |-> ""]]
    /\ scrollHeight \in [Questions -> ScrollHeights]
    /\ pageYOffset = 0
    /\ headerPresent \in BOOLEAN
    /\ headerHeight \in HeaderHeights
    /\ (~headerPresent => headerHeight = 0)
    /\ headerScrolled = FALSE
    /\ lastScrollTop = 0
    /\ btnPresent \in BOOLEAN
    /\ btn = [visible |-> FALSE, ariaHidden |-> "true"]
    /\ skipLinkPresent \in BOOLEAN
    /\ inThrottle = [k \in Wrappers |-> FALSE]
    /\ timers = <<>>
    /\ offsetTop \in [Targets -> OffsetTops]
    /\ tabindex \in [Targets -> TabindexValues]
    /\ tabindex0 = tabindex
    /\ focus = "body"
    /\ scrollToArg = "none"
    /\ locationHash = ""
    /\ historyLen = 0
    /\ defaultPrevented = FALSE
    /\ thrown = FALSE
    /\ throttleLog = [k \in Wrappers |->
                         [ran |-> FALSE, calls |-> 0, runs |-> 0,
                          elapsed |-> Limit(k)]]
    /\ lastEvent = [type |-> "load", region |-> "", anchor |-> "none",
                    key |-> "", q |-> 0, n |-> 0, menuBefore |-> menu,
                    expandedBefore |-> {}, afterTrigger |-> FALSE]
    /\ effects = <<>>
    /\ revealed = {}
    /\ entries = {}
    /\ debounce = [d \in Debounced |-> NoWrapper]

\* the page once the script was evaluated and DOMContentLoaded dispatched
Init ==
    /\ Page
    /\ scriptEvaluated = TRUE
    /\ domContentLoaded = TRUE
    /\ initLog = immediateInits \o initOrder
    /\ observed = observeElements

\* a click anywhere but on a FAQ question or the scroll-to-top button: the
\* trigger's listener, the link's listener, the anchor's listener, then the
\* document's listener.  The trigger is a button, not an in-page anchor, and
\* without the menu's elements every click is outside them.
Click(region, anchor) ==
    LET resolved == anchor \in Targets
        done == IF resolved THEN stepsDone(closeMenuThrows) ELSE <<>>
        Did(st) == \E i \in DOMAIN done : done[i] = st
        m1 == IF menuPresent /\ region = "trigger" THEN toggleMenu(menu)
              ELSE IF menuPresent /\ region = "menuLink" THEN closeMenu(menu)
              ELSE menu
        m2 == IF ~resolved THEN m1
              ELSE IF closeMenuThrows THEN closeMenuPartial(m1)
              ELSE closeMenu(m1)
    IN  /\ region = "trigger" => anchor = "none"
        /\ ~menuPresent => region = "outside"
        /\ Did("pushState") => historyLen < MaxHistory
        /\ Did("updateFocus") => Pending("tabindex") < MaxTimers
        /\ menu' = documentClick(m2, region)
        /\ scrollToArg' = IF Did("scrollTo") THEN targetPosition(anchor)
                          ELSE scrollToArg
        /\ IF Did("updateFocus")
           THEN /\ tabindex' = updateFocus(tabindex, anchor)
                /\ focus' = anchor
                /\ timers' = setTimeout(timers,
                                 Timer("tabindex", anchor, FocusCleanupDelay))
           ELSE UNCHANGED <<tabindex, focus, timers>>
        /\ IF Did("pushState") /\ anchor # "bare"
           THEN /\ locationHash' = anchor
                /\ historyLen' = historyLen + 1
           ELSE UNCHANGED <<locationHash, historyLen>>
        /\ effects' = done
        /\ defaultPrevented' =
              ((menuPresent /\ region = "trigger") \/ anchor # "none")
        /\ thrown' = ((anchor # "none" /\ querySelectorThrows(anchor))
                        \/ (resolved /\ closeMenuThrows))
        /\ lastEvent' = Ev("click", region, anchor, "", 0, 0)
        /\ UNCHANGED <<revealVars, debounceVars, loadVars, domVars, faqVars, scrollVars>>

\* a click on FAQ question q, outside the menu
QuestionClick(q) ==
    /\ faq' = toggleFAQ(faq, q)
    /\ menu' = documentClick(menu, "outside")
    /\ defaultPrevented' = TRUE
    /\ thrown' = FALSE
    /\ effects' = <<>>
    /\ lastEvent' = Ev("questionClick", "outside", "none", "", q, 0)
    /\ UNCHANGED <<revealVars, debounceVars, loadVars, domVars, scrollVars, anchorVars, timers>>

\* key test that forgets the space bar
activationKeyEnterOnly(key) == key = "Enter"

\* the key test of the questions' keydown listener
activationKey(key) == key = "Enter" \/ key = " "

\* a keydown whose target is question q, or no question when q = 0
Keydown(key, q) ==
    LET activates == q \in Questions /\ activationKey(key)
    IN  /\ faq' = IF activates THEN toggleFAQ(faq, q) ELSE faq
        /\ menu' = documentKeydown(menu, key)
        /\ defaultPrevented' = activates
        /\ thrown' = FALSE
        /\ effects' = <<>>
        /\ lastEvent' = Ev("keydown", "", "none", key, q, 0)
        /\ UNCHANGED <<revealVars, debounceVars, loadVars, domVars, scrollVars, anchorVars, timers>>

Resize(w) ==
    /\ menu' = windowResize(menu, w)
    /\ defaultPrevented' = FALSE
    /\ thrown' = FALSE
    /\ effects' = <<>>
    /\ lastEvent' = Ev("resize", "", "none", "", 0, w)
    /\ UNCHANGED <<revealVars, debounceVars, loadVars, domVars, faqVars, scrollVars, anchorVars, timers>>

\* a click on #scrollTop, outside the menu
ScrollTopClick ==
    /\ btnPresent
    /\ scrollToArg' = 0
    /\ focus' = IF skipLinkPresent THEN "skipLink" ELSE focus
    /\ menu' = documentClick(menu, "outside")
    /\ defaultPrevented' = TRUE
    /\ thrown' = FALSE
    /\ effects' = <<>>
    /\ lastEvent' = Ev("scrollTopClick", "outside", "none", "", 0, 0)
    /\ UNCHANGED <<revealVars, debounceVars, loadVars, domVars, faqVars, scrollVars, tabindex, locationHash,
                   historyLen, timers>>

\* the scroll position becomes y and the scroll event is dispatched to the
\* wrapper ScrollToTop registered, then to the one HeaderScroll registered
Scroll(y) ==
    LET r == [k \in Wrappers |->
                 IF k = "top" THEN throttle(ScrollTopLimit, inThrottle[k])
                 ELSE headerThrottle(HeaderLimit, inThrottle[k])]
        runs(k) == Bound(k) /\ r[k].run
        set(ts, k) == IF Bound(k) /\ r[k].delays # <<>>
                      THEN setTimeout(ts, Timer("throttle", k, r[k].delays[1]))
                      ELSE ts
        h == handleScroll(y)
    IN  /\ y # pageYOffset
        /\ pageYOffset' = y
        /\ btn' = IF runs("top") THEN toggleVisibility(btn, y) ELSE btn
        /\ headerScrolled' = IF runs("hdr") THEN h.scrolled ELSE headerScrolled
        /\ lastScrollTop' = IF runs("hdr") THEN h.lastScrollTop ELSE lastScrollTop
        /\ inThrottle' = [k \in Wrappers |->
                             IF Bound(k) THEN r[k].inThrottle ELSE inThrottle[k]]
        /\ timers' = set(set(timers, "top"), "hdr")
        /\ throttleLog' = [k \in Wrappers |->
              IF Bound(k)
              THEN [ran |-> r[k].run,
                    calls |-> Min(throttleLog[k].calls + 1, MaxCalls),
                    runs |-> IF r[k].run
                             THEN Min(throttleLog[k].runs + 1, 2)
                             ELSE throttleLog[k].runs,
                    elapsed |-> IF r[k].run THEN 0 ELSE throttleLog[k].elapsed]
              ELSE throttleLog[k]]
        /\ defaultPrevented' = FALSE
        /\ thrown' = FALSE
        /\ effects' = <<>>
        /\ lastEvent' = Ev("scroll", "", "none", "", 0, y)
        /\ UNCHANGED <<revealVars, debounceVars, loadVars, domVars, menuVars, faqVars, anchorVars>>

\* time passes until some pending timer is due
Tick ==
    /\ \E i \in DOMAIN timers :
          /\ timers[i].rem > 0
          /\ timers' = [j \in DOMAIN timers |->
                [timers[j] EXCEPT !.rem = Max(0, timers[j].rem - timers[i].rem)]]
          /\ throttleLog' = [k \in Wrappers |->
                [throttleLog[k] EXCEPT
                    !.elapsed = Min(Limit(k), @ + timers[i].rem)]]
          /\ debounce' = [d \in Debounced |->
                [debounce[d] EXCEPT
                    !.idle = Min(debounce[d].wait, @ + timers[i].rem),
                    !.invoked = FALSE]]
          /\ lastEvent' = Ev("tick", "", "none", "", 0, timers[i].rem)
    /\ defaultPrevented' = FALSE
    /\ thrown' = FALSE
    /\ effects' = <<>>
    /\ UNCHANGED <<revealVars, loadVars, domVars, menuVars, faqVars, anchorVars, pageYOffset,
                   headerScrolled, lastScrollTop, btn, inThrottle>>

\* the timeout a throttle wrapper set fires
ThrottleExpire ==
    /\ timers # <<>>
    /\ Head(timers).rem = 0
    /\ Head(timers).kind = "throttle"
    /\ inThrottle' = [inThrottle EXCEPT ![Head(timers).arg] = FALSE]
    /\ throttleLog' = [throttleLog EXCEPT ![Head(timers).arg] =
                          [@ EXCEPT !.ran = FALSE, !.calls = 0, !.runs = 0]]
    /\ timers' = Tail(timers)
    /\ defaultPrevented' = FALSE
    /\ thrown' = FALSE
    /\ effects' = <<>>
    /\ lastEvent' = Ev("throttleExpire", "", "none", Head(timers).arg, 0, 0)
    /\ UNCHANGED <<revealVars, debounceVars, loadVars, domVars, menuVars, faqVars, anchorVars, pageYOffset,
                   headerScrolled, lastScrollTop, btn>>

\* the timeout updateFocus set fires
FocusCleanup ==
    /\ timers # <<>>
    /\ Head(timers).rem = 0
    /\ Head(timers).kind = "tabindex"
    /\ tabindex' = focusCleanup(tabindex, Head(timers).arg)
    /\ timers' = Tail(timers)
    /\ defaultPrevented' = FALSE
    /\ thrown' = FALSE
    /\ effects' = <<>>
    /\ lastEvent' = Ev("focusCleanup", "", Head(timers).arg, "", 0, 0)
    /\ UNCHANGED <<revealVars, debounceVars, loadVars, domVars, menuVars, faqVars, scrollVars, focus, scrollToArg,
                   locationHash, historyLen>>

\* the IntersectionObserver delivers a batch of entries of observed elements
Intersect(es) ==
    LET st == handleIntersection([revealed |-> revealed, timers |-> timers,
                                  observed |-> observed], es)
    IN  /\ domContentLoaded
        /\ \A i \in DOMAIN es : es[i].target \in observed
        /\ revealed' = st.revealed
        /\ observed' = st.observed
        /\ timers' = st.timers
        /\ entries' = {es[i] : i \in DOMAIN es}
        /\ defaultPrevented' = FALSE
        /\ thrown' = FALSE
        /\ effects' = <<>>
        /\ lastEvent' = Ev("intersect", "", "none", "", 0, Len(es))
        /\ UNCHANGED <<debounceVars, loadVars, domVars, menuVars, faqVars,
                       scrollVars, anchorVars>>

\* a timeout addStaggeredAnimation set fires
StaggerFire ==
    /\ timers # <<>>
    /\ Head(timers).rem = 0
    /\ Head(timers).kind = "stagger"
    /\ revealed' = revealed \cup {Head(timers).arg}
    /\ timers' = Tail(timers)
    /\ defaultPrevented' = FALSE
    /\ thrown' = FALSE
    /\ effects' = <<>>
    /\ lastEvent' = Ev("staggerFire", "", "none", "", 0, Head(timers).arg)
    /\ UNCHANGED <<observed, entries, debounceVars, loadVars, domVars,
                   menuVars, faqVars, scrollVars, anchorVars>>

\* Utils.debounce(func, wait, immediate) is called for function d
DebounceCreate(d, wait, immediate) ==
    /\ ~debounce[d].created
    /\ debounce' = [x \in Debounced |->
          IF x = d
          THEN [NoWrapper EXCEPT !.created = TRUE, !.wait = wait,
                                 !.immediate = immediate]
          ELSE [debounce[x] EXCEPT !.invoked = FALSE]]
    /\ defaultPrevented' = FALSE
    /\ thrown' = FALSE
    /\ effects' = <<>>
    /\ lastEvent' = Ev("debounceCreate", "", "none", d, 0, wait)
    /\ UNCHANGED <<revealVars, loadVars, domVars, menuVars, faqVars,
                   scrollVars, anchorVars, timers>>

\* the wrapper made of function d is called
DebounceCall(d) ==
    LET r == debounced(debounce[d], timers, d)
    IN  /\ debounce[d].created
        /\ debounce' = [x \in Debounced |->
              IF x = d
              THEN [debounce[d] EXCEPT !.timeout = TRUE, !.called = TRUE,
                                       !.idle = 0, !.invoked = r.callNow]
              ELSE [debounce[x] EXCEPT !.invoked = FALSE]]
        /\ timers' = r.timers
        /\ defaultPrevented' = FALSE
        /\ thrown' = FALSE
        /\ effects' = <<>>
        /\ lastEvent' = Ev("debounceCall", "", "none", d, 0, 0)
        /\ UNCHANGED <<revealVars, loadVars, domVars, menuVars, faqVars,
                       scrollVars, anchorVars>>

\* the timeout a debounce wrapper set fires
DebounceFire ==
    /\ timers # <<>>
    /\ Head(timers).rem = 0
    /\ Head(timers).kind = "debounce"
    /\ debounce' = [x \in Debounced |->
          IF x = Head(timers).arg
          THEN [debounce[x] EXCEPT !.timeout = later(debounce[x]).timeout,
                                   !.invoked = later(debounce[x]).invoke]
          ELSE [debounce[x] EXCEPT !.invoked = FALSE]]
    /\ timers' = Tail(timers)
    /\ defaultPrevented' = FALSE
    /\ thrown' = FALSE
    /\ effects' = <<>>
    /\ lastEvent' = Ev("debounceFire", "", "none", Head(timers).arg, 0, 0)
    /\ UNCHANGED <<revealVars, loadVars, domVars, menuVars, faqVars,
                   scrollVars, anchorVars>>

\* the script is evaluated to its end: the DOMContentLoaded listener is
\* registered, then Performance and ErrorHandler are initialized
Evaluate ==
    /\ ~scriptEvaluated
    /\ scriptEvaluated' = TRUE
    /\ initLog' = initLog \o immediateInits
    /\ defaultPrevented' = FALSE
    /\ thrown' = FALSE
    /\ effects' = <<>>
    /\ lastEvent' = Ev("evaluate", "", "none", "", 0, 0)
    /\ UNCHANGED <<domContentLoaded, revealVars, debounceVars, domVars,
                   menuVars, faqVars, scrollVars, anchorVars, timers>>

\* the document dispatches DOMContentLoaded, once, to the listener the
\* script of the page registered
DOMContentLoaded ==
    /\ scriptEvaluated
    /\ ~domContentLoaded
    /\ domContentLoaded' = TRUE
    /\ initLog' = initLog \o initOrder
    /\ observed' = observeElements
    /\ lastScrollTop' = 0
    /\ defaultPrevented' = FALSE
    /\ thrown' = FALSE
    /\ effects' = <<>>
    /\ lastEvent' = Ev("DOMContentLoaded", "", "none", "", 0, 0)
    /\ UNCHANGED <<scriptEvaluated, revealed, entries, debounceVars, domVars,
                   menuVars, faqVars, anchorVars, timers, pageYOffset,
                   headerScrolled, btn, inThrottle, throttleLog>>

Next ==
    \/ Evaluate
    \/ DOMContentLoaded
    \/ \E es \in Batches : Intersect(es)
    \/ StaggerFire
    \/ \E region \in Regions, anchor \in Anchors : Click(region, anchor)
    \/ \E q \in Questions : QuestionClick(q)
    \/ \E key \in Keys, q \in Questions \cup {0} : Keydown(key, q)
    \/ \E w \in Widths : Resize(w)
    \/ ScrollTopClick
    \/ \E y \in Offsets : Scroll(y)
    \/ Tick
    \/ ThrottleExpire
    \/ FocusCleanup

Spec == Init /\ [][Next]_vars

(***************************************************************************)
(* Specifications of the single controllers: each starts from the pages    *)
(* that differ in what the controller reads and takes the events that      *)
(* reach it                                                                *)
(***************************************************************************)
FaqFixed ==
    /\ scrollHeight = [q \in Questions |-> 120]
    /\ \A q \in Questions : faq[q].ariaExpanded = "false"

ScrollFixed == headerPresent /\ headerHeight = 80 /\ btnPresent /\ skipLinkPresent

AnchorFixed ==
    /\ offsetTop = [t \in Targets |-> 1000]
    /\ tabindex = [t \in Targets |-> "none"]

MenuFixed ==
    /\ triggerPresent /\ containerPresent /\ iconPresent
    /\ menu.ariaExpanded = "false"

InitMenu == Init /\ FaqFixed /\ ScrollFixed /\ AnchorFixed

NextMenu ==
    \/ \E region \in Regions, anchor \in Anchors : Click(region, anchor)
    \/ \E key \in Keys : Keydown(key, 0)
    \/ \E w \in Widths : Resize(w)
    \/ ScrollTopClick
    \/ Tick
    \/ FocusCleanup

SpecMenu == InitMenu /\ [][NextMenu]_vars

InitFaq == Init /\ MenuFixed /\ ScrollFixed /\ AnchorFixed

NextFaq ==
    \/ \E q \in Questions : QuestionClick(q)
    \/ \E key \in Keys, q \in Questions : Keydown(key, q)

SpecFaq == InitFaq /\ [][NextFaq]_vars

InitScroll ==
    Init /\ MenuFixed /\ FaqFixed /\ AnchorFixed /\ skipLinkPresent
         /\ (headerPresent => headerHeight = 80)

NextScroll ==
    \/ \E y \in Offsets : Scroll(y)
    \/ Tick
    \/ ThrottleExpire

SpecScroll == InitScroll /\ [][NextScroll]_vars

InitAnchor ==
    Init /\ FaqFixed /\ btnPresent /\ skipLinkPresent
         /\ triggerPresent = containerPresent
         /\ iconPresent = triggerPresent
         /\ menu.ariaExpanded = "false"
         /\ tabindex = [t \in Targets |-> "none"]

NextAnchor ==
    \/ \E region \in {"trigger", "menuOther", "outside"}, anchor \in Anchors :
          Click(region, anchor)
    \/ Tick
    \/ FocusCleanup

SpecAnchor == InitAnchor /\ [][NextAnchor]_vars

\* anchor clicks on targets whose markup carries any tabindex or none
InitFocus ==
    Init /\ MenuFixed /\ FaqFixed /\ ScrollFixed
         /\ offsetTop = [t \in Targets |-> 1000]

NextFocus ==
    \/ \E anchor \in Targets : Click("outside", anchor)
    \/ Tick
    \/ FocusCleanup

SpecFocus == InitFocus /\ [][NextFocus]_vars

InitReveal == Init /\ MenuFixed /\ FaqFixed /\ ScrollFixed /\ AnchorFixed

NextReveal ==
    \/ \E es \in Batches : Intersect(es)
    \/ Tick
    \/ StaggerFire

SpecReveal == InitReveal /\ [][NextReveal]_vars

\* the program never calls Utils.debounce: its contract is that of the
\* wrappers a caller can make and call
InitDebounce == Init /\ MenuFixed /\ FaqFixed /\ ScrollFixed /\ AnchorFixed

NextDebounce ==
    \/ \E d \in Debounced, wait \in Waits, immediate \in BOOLEAN :
          DebounceCreate(d, wait, immediate)
    \/ \E d \in Debounced : DebounceCall(d)
    \/ Tick
    \/ DebounceFire

SpecDebounce == InitDebounce /\ [][NextDebounce]_vars

\* the menu under the events its listeners hear and those they ignore
InitFrame ==
    Init /\ FaqFixed /\ ScrollFixed /\ AnchorFixed
         /\ triggerPresent /\ containerPresent

NextFrame ==
    \/ \E region \in {"trigger", "menuOther"} : Click(region, "none")
    \/ \E key \in Keys : Keydown(key, 0)
    \/ \E w \in Widths : Resize(w)
    \/ \E y \in {0, 301} : Scroll(y)
    \/ Tick
    \/ ThrottleExpire

SpecFrame == InitFrame /\ [][NextFrame]_vars

\* the load of the page, from before the script is evaluated
InitLoad ==
    /\ Page /\ FaqFixed /\ AnchorFixed
    /\ scriptEvaluated = FALSE
    /\ domContentLoaded = FALSE
    /\ initLog = <<>>
    /\ observed = {}

NextLoad ==
    \/ Evaluate
    \/ DOMContentLoaded

SpecLoad == InitLoad /\ [][NextLoad]_vars

(***************************************************************************)
(* Properties                                                              *)
(***************************************************************************)
MenuOpen(m) == m.ariaExpanded = "true"

AllOpen(m) ==
    /\ m.ariaExpanded = "true" /\ m.active /\ m.overflow = "hidden"
    /\ iconPresent => (m.faTimes /\ ~m.faBars)

AllClosed(m) ==
    /\ m.ariaExpanded # "true" /\ ~m.active /\ m.overflow = ""
    /\ iconPresent => (m.faBars /\ ~m.faTimes)

TriggerClicked(e) == e.type = "click" /\ e.region = "trigger"

\* C1: in every reachable state the four mirrors of the menu state agree:
\* aria-expanded is 'true' iff the container has class active iff the icon
\* shows fa-times and not fa-bars iff body overflow is 'hidden'.
MenuMirrorsAgree ==
    /\ menu.active <=> MenuOpen(menu)
    /\ (menu.overflow = "hidden") <=> MenuOpen(menu)
    /\ iconPresent => ((menu.faTimes /\ ~menu.faBars) <=> MenuOpen(menu))

\* the menu reopened by the trigger after an anchor click had closed it
MenuMirrorsAgreeWitness ==
    /\ menuPresent /\ iconPresent
    /\ TriggerClicked(lastEvent)
    /\ historyLen > 0
    /\ AllOpen(menu)

\* C3: the complete dispatch of a click on the trigger flips the menu, closed
\* to open (aria-expanded 'true', class active, scroll locked) and open to
\* closed, and two consecutive trigger clicks restore the mirrors.
TriggerClickFlips ==
    [][(menuPresent /\ TriggerClicked(lastEvent'))
        => /\ IF MenuOpen(menu) THEN AllClosed(menu') ELSE AllOpen(menu')
           /\ menu'.ariaExpanded \in {"true", "false"}
           /\ TriggerClicked(lastEvent)
                 => /\ MenuOpen(menu') <=> MenuOpen(lastEvent.menuBefore)
                    /\ menu'.active = lastEvent.menuBefore.active
                    /\ menu'.overflow = lastEvent.menuBefore.overflow
                    /\ menu'.faBars = lastEvent.menuBefore.faBars
                    /\ menu'.faTimes = lastEvent.menuBefore.faTimes]_vars

\* the second of two consecutive trigger clicks has closed the menu the
\* first one opened
TriggerClickFlipsWitness ==
    /\ menuPresent
    /\ TriggerClicked(lastEvent) /\ lastEvent.afterTrigger
    /\ AllOpen(lastEvent.menuBefore)
    /\ AllClosed(menu)

\* C4: after a click on an in-menu link, a click outside trigger and menu, a
\* keydown of Escape or a resize observed at width >= 768 the menu is closed,
\* whatever it was before.
ForceCloseEvent(e) ==
    \/ /\ e.type \in {"click", "questionClick", "scrollTopClick"}
       /\ e.region \in {"menuLink", "outside"}
    \/ e.type = "keydown" /\ e.key = "Escape"
    \/ e.type = "resize" /\ e.n >= 768

ForceClose ==
    (menuPresent /\ ForceCloseEvent(lastEvent))
        => (AllClosed(menu) /\ menu.ariaExpanded = "false")

\* the menu was open and a resize at exactly the breakpoint closed it
ForceCloseWitness ==
    /\ menuPresent
    /\ lastEvent.type = "resize" /\ lastEvent.n = 768
    /\ AllOpen(lastEvent.menuBefore)
    /\ AllClosed(menu)

Activation(e) ==
    \/ e.type = "questionClick"
    \/ e.type = "keydown" /\ e.q \in Questions /\ e.key \in {"Enter", " "}

Collapsed(f, q) ==
    /\ f[q].ariaExpanded = "false" /\ ~f[q].qActive /\ ~f[q].aActive
    /\ f[q].maxHeight = "0px"

\* C2: in every reachable state at most one question has aria-expanded
\* 'true' and at most one answer has class active.
SingleOpen ==
    /\ Cardinality({q \in Questions : faq[q].ariaExpanded = "true"}) <= 1
    /\ Cardinality({q \in Questions : faq[q].aActive}) <= 1

\* question 2 activated while question 1 was expanded
SingleOpenWitness ==
    /\ Activation(lastEvent) /\ lastEvent.q = 2
    /\ lastEvent.expandedBefore = {1}
    /\ faq[2].ariaExpanded = "true" /\ faq[2].aActive

\* C5: after the activation of a question that was expanded no question has
\* aria-expanded 'true', no question or answer has class active and every
\* answer has max-height '0px'.
ActivateExpandedCollapsesAll ==
    (Activation(lastEvent) /\ lastEvent.q \in lastEvent.expandedBefore)
        => \A q \in Questions : Collapsed(faq, q)

ActivateExpandedCollapsesAllWitness ==
    /\ lastEvent.type = "questionClick"
    /\ lastEvent.q \in lastEvent.expandedBefore
    /\ \A q \in Questions : faq[q].maxHeight = "0px"

\* C6: after the activation of a question q that was not expanded exactly q
\* is expanded: q has aria-expanded 'true' and class active, its answer has
\* class active and max-height its scrollHeight in px, and every other
\* question is collapsed with its answer at max-height '0px'.
ActivateCollapsedExpandsOnly ==
    (Activation(lastEvent) /\ lastEvent.q \notin lastEvent.expandedBefore)
        => /\ faq[lastEvent.q].ariaExpanded = "true"
           /\ faq[lastEvent.q].qActive /\ faq[lastEvent.q].aActive
           /\ faq[lastEvent.q].maxHeight
                 = ToString(scrollHeight[lastEvent.q]) \o "px"
           /\ \A q \in Questions \ {lastEvent.q} : Collapsed(faq, q)

\* question 2, 120 px high, activated while question 1 was expanded
ActivateCollapsedExpandsOnlyWitness ==
    /\ lastEvent.type = "questionClick" /\ lastEvent.q = 2
    /\ lastEvent.expandedBefore = {1}
    /\ scrollHeight[2] = 120
    /\ faq[2].maxHeight = "120px"
    /\ Collapsed(faq, 1) /\ Collapsed(faq, 3)

\* C7: in every reachable state the header has class scrolled iff the
\* current scroll offset is > 10.
HeaderTracksOffset ==
    headerPresent => (headerScrolled <=> pageYOffset > 10)

\* C8: in every reachable state the scroll-to-top button has class visible
\* and aria-hidden 'false' iff the current scroll offset is > 300, and
\* otherwise lacks visible and has aria-hidden 'true'.
ButtonTracksOffset ==
    btnPresent =>
        IF pageYOffset > 300
        THEN btn.visible /\ btn.ariaHidden = "false"
        ELSE ~btn.visible /\ btn.ariaHidden = "true"

\* the cooldown of wrapper k: its timeout is set and has not fired
CoolingDown(k) ==
    \E i \in DOMAIN timers : timers[i].kind = "throttle" /\ timers[i].arg = k

\* the timeouts of wrapper k that are pending
TimeoutsOf(k) ==
    Cardinality({i \in DOMAIN timers :
                    timers[i].kind = "throttle" /\ timers[i].arg = k})

\* what func of wrapper k writes
FuncState(k) == IF k = "top" THEN <<btn>> ELSE <<headerScrolled, lastScrollTop>>

\* func of wrapper k ran on offset y
FuncRanOn(k, y) ==
    IF k = "top"
    THEN btn' = [visible |-> y > 300,
                 ariaHidden |-> IF y > 300 THEN "false" ELSE "true"]
    ELSE headerScrolled' = (y > 10) /\ lastScrollTop' = y

\* C9: a call of a throttle wrapper invokes func at once exactly when no
\* cooldown is running (the first call, and the first call after the timer
\* fired); a call during the cooldown is dropped, changes nothing and is not
\* invoked later; func runs at most once per cooldown and two runs are at
\* least limit apart.
ThrottleContract ==
    /\ [](\A k \in Wrappers : throttleLog[k].runs <= 1)
    /\ [][\A k \in Wrappers : Bound(k) =>
            IF lastEvent'.type = "scroll"
            THEN /\ throttleLog'[k].ran <=> ~CoolingDown(k)
                 /\ ~CoolingDown(k)
                       => /\ FuncRanOn(k, lastEvent'.n)
                          /\ throttleLog[k].elapsed >= Limit(k)
                          /\ CoolingDown(k)'
                 /\ CoolingDown(k)
                       => /\ FuncState(k)' = FuncState(k)
                          /\ TimeoutsOf(k)' = TimeoutsOf(k)
            ELSE FuncState(k)' = FuncState(k)]_vars

\* five calls of the 100 ms wrapper within one cooldown, func ran once
ThrottleContractWitness ==
    /\ btnPresent
    /\ lastEvent.type = "scroll"
    /\ CoolingDown("top")
    /\ throttleLog["top"].calls = 5
    /\ throttleLog["top"].runs = 1
    /\ ~throttleLog["top"].ran

\* C10: the destination an anchor click passes to window.scrollTo is the
\* target's offsetTop minus the header's height (0 without a header)
\* minus 20.
ScrollDestination ==
    (menuPresent /\ lastEvent.type = "click" /\ lastEvent.anchor \in Targets)
        => /\ ~thrown
           /\ scrollToArg = offsetTop[lastEvent.anchor]
                            - (IF headerPresent THEN headerHeight ELSE 0) - 20

\* target at 1000 under a header of 80: the destination is 900
ScrollDestinationWitness ==
    /\ menuPresent /\ headerPresent /\ headerHeight = 80
    /\ lastEvent.type = "click" /\ lastEvent.anchor \in Targets
    /\ offsetTop[lastEvent.anchor] = 1000
    /\ scrollToArg = 900

\* C11: a click on an in-page anchor whose fragment resolves to no element,
\* the bare '#' included, has its default prevented, throws nothing and
\* changes nothing: scroll position, focus, tabindex, history and, where no
\* listener of the menu is concerned, the menu.
UnresolvedAnchorNoOp ==
    [][(lastEvent'.type = "click"
            /\ lastEvent'.anchor \in {"bare", "unresolved"})
        => /\ defaultPrevented'
           /\ ~thrown'
           /\ UNCHANGED <<anchorVars, pageYOffset, timers>>
           /\ lastEvent'.region = "menuOther" => menu' = menu]_vars

\* C12: with an expected element missing no event throws; with the menu's
\* elements missing a click on an anchor whose target resolves still
\* scrolls, moves the focus and updates the hash.
MissingElementsDegrade ==
    /\ lastEvent.anchor # "bare" => ~thrown
    /\ (~menuPresent /\ lastEvent.type = "click"
            /\ lastEvent.anchor \in Targets)
        => /\ scrollToArg = offsetTop[lastEvent.anchor]
                            - (IF headerPresent THEN headerHeight ELSE 0) - 20
           /\ focus = lastEvent.anchor
           /\ locationHash = lastEvent.anchor

CollapsedPair ==
    [ariaExpanded |-> "false", qActive |-> FALSE, aActive |-> FALSE,
     maxHeight |-> "0px"]

\* the accordion a click on question q leaves behind
AfterActivation(f, q) ==
    [x \in Questions |->
        IF x = q /\ f[q].ariaExpanded # "true"
        THEN [ariaExpanded |-> "true", qActive |-> TRUE, aActive |-> TRUE,
              maxHeight |-> ToString(scrollHeight[q]) \o "px"]
        ELSE CollapsedPair]

\* C14: a keydown of Enter or ' ' on a question leaves exactly the accordion
\* a click on that question leaves, and a keydown of any other key leaves
\* the accordion as it was.
KeyboardEquivalence ==
    [][/\ lastEvent'.type = "questionClick"
            => faq' = AfterActivation(faq, lastEvent'.q)
       /\ (lastEvent'.type = "keydown" /\ lastEvent'.q \in Questions)
            => faq' = IF lastEvent'.key \in {"Enter", " "}
                      THEN AfterActivation(faq, lastEvent'.q)
                      ELSE faq]_vars

\* the space bar on question 2 while question 1 was expanded
KeyboardEquivalenceWitness ==
    /\ lastEvent.type = "keydown" /\ lastEvent.key = " " /\ lastEvent.q = 2
    /\ lastEvent.expandedBefore = {1}
    /\ Expanded(faq) = {2}
    /\ faq[1] = CollapsedPair

AnswersShut == \A q \in Questions :
    faq[q].ariaExpanded # "true" => faq[q].maxHeight = "0px"

\* C20: in every state each question has aria-expanded 'true' iff it has
\* class active iff its answer has class active; after an activation, and
\* from then on, every collapsed pair's answer has max-height '0px'.
FaqMirrorsAgree ==
    /\ [](\A q \in Questions :
             /\ (faq[q].ariaExpanded = "true") <=> faq[q].qActive
             /\ faq[q].qActive <=> faq[q].aActive)
    /\ [][Activation(lastEvent') => AnswersShut']_vars
    /\ [][AnswersShut => AnswersShut']_vars

\* a key that activates nothing, pressed while question 3 is expanded
FaqMirrorsAgreeWitness ==
    /\ lastEvent.type = "keydown" /\ lastEvent.key = "a"
    /\ faq[3].ariaExpanded = "true" /\ faq[3].qActive /\ faq[3].aActive
    /\ faq[1].maxHeight = "0px" /\ faq[2].maxHeight = "0px"

\* C13: reveal happens once and is never undone: the class animate-fade-in is
\* never taken from an element, observation is never resumed, handling an
\* intersecting entry leaves its target revealed and unobserved, an element
\* stops being observed only by being revealed, and a callback whose
\* entries are all non-intersecting changes nothing.
RevealOneShot ==
    /\ [](\A e \in Elements : e \notin observed => e \in revealed)
    /\ [][/\ revealed \subseteq revealed'
          /\ observed' \subseteq observed
          /\ lastEvent'.type = "intersect"
                => /\ \A e \in entries' :
                         e.isIntersecting
                            => /\ e.target \in revealed'
                               /\ e.target \notin observed'
                   /\ (\A e \in entries' : ~e.isIntersecting)
                         => UNCHANGED <<revealed, observed, timers>>]_vars

\* card 2, revealed by the section's timer and still observed, leaves the
\* viewport and stays revealed
RevealOneShotWitness ==
    /\ lastEvent.type = "intersect"
    /\ entries = {[target |-> 2, isIntersecting |-> FALSE]}
    /\ 2 \in revealed /\ 2 \in observed
    /\ Section \in revealed /\ Section \notin observed

\* the timeouts set for item: their remaining delays
StaggerDelays(ts, item) ==
    {ts[i].rem : i \in {j \in DOMAIN ts :
                           ts[j].kind = "stagger" /\ ts[j].arg = item}}

\* C19: when the section intersects, card i (from 0) gets a timeout of
\* i * 100 ms, and from then on a card receives the class only when every
\* card before it has it: the cards are revealed in index order.
StaggeredOrder ==
    /\ [][(lastEvent'.type = "intersect" /\ Section \in observed
              /\ Section \notin observed')
            => \A i \in Cards : (i - 1) * 100 \in StaggerDelays(timers', i)]_vars
    /\ [][(Section \in revealed')
            => \A j \in Cards :
                  (j \notin revealed /\ j \in revealed')
                     => \A i \in Cards : i < j => i \in revealed']_vars

\* an idle wrapper: the timeout of wrapper d is pending
TimeoutOf(d) ==
    \E i \in DOMAIN timers : timers[i].kind = "debounce" /\ timers[i].arg = d

\* C15: func of a debounce wrapper runs only in a call or a timeout of that
\* wrapper.  Without immediate no call runs it and the timeout runs it, wait
\* after the last call and with no timeout left.  With immediate a call runs
\* it exactly when no timeout is pending (the first call of a burst), a call
\* less than wait after the call before it does not, and the timeout never
\* does.  A wrapper has at most one timeout pending.
DebounceContract ==
    /\ [](\A d \in Debounced :
             Cardinality({i \in DOMAIN timers :
                 timers[i].kind = "debounce" /\ timers[i].arg = d}) <= 1)
    /\ [][\A d \in Debounced :
            LET c == debounce[d]
                isCall == lastEvent'.type = "debounceCall" /\ lastEvent'.key = d
                isFire == lastEvent'.type = "debounceFire" /\ lastEvent'.key = d
            IN  /\ debounce'[d].invoked => (isCall \/ isFire)
                /\ isCall =>
                      IF c.immediate
                      THEN /\ debounce'[d].invoked <=> ~TimeoutOf(d)
                           /\ (c.called /\ c.idle < c.wait)
                                 => ~debounce'[d].invoked
                      ELSE ~debounce'[d].invoked
                /\ isFire =>
                      IF c.immediate
                      THEN ~debounce'[d].invoked
                      ELSE /\ debounce'[d].invoked
                           /\ c.idle = c.wait
                           /\ ~TimeoutOf(d)']_vars

\* the timeout of the plain wrapper d1 runs func, wait after its last call,
\* while the immediate wrapper d2 is inside a burst
DebounceContractWitness ==
    /\ lastEvent.type = "debounceFire" /\ lastEvent.key = "d1"
    /\ ~debounce["d1"].immediate /\ debounce["d1"].invoked
    /\ debounce["d1"].idle = debounce["d1"].wait
    /\ debounce["d2"].immediate /\ debounce["d2"].called
    /\ debounce["d2"].timeout /\ debounce["d2"].idle < debounce["d2"].wait

\* C16: Performance and ErrorHandler are initialized, in that order, by the
\* evaluation of the script and before DOMContentLoaded; no controller is
\* initialized before DOMContentLoaded, and its dispatch initializes the six
\* controllers once each in the order MobileMenu, ScrollToTop,
\* SmoothScrolling, FAQ, ScrollAnimations, HeaderScroll.
LoadOrder ==
    /\ ~scriptEvaluated => initLog = <<>>
    /\ scriptEvaluated
          => /\ Len(initLog) >= 2
             /\ SubSeq(initLog, 1, 2) = <<"Performance", "ErrorHandler">>
    /\ ~domContentLoaded => Len(initLog) <= 2
    /\ domContentLoaded
          => SubSeq(initLog, 3, Len(initLog))
                = <<"MobileMenu", "ScrollToTop", "SmoothScrolling", "FAQ",
                    "ScrollAnimations", "HeaderScroll">>
    /\ \A i, j \in DOMAIN initLog : initLog[i] = initLog[j] => i = j

\* DOMContentLoaded was dispatched on a page without the menu's elements
LoadOrderWitness ==
    /\ lastEvent.type = "DOMContentLoaded"
    /\ domContentLoaded /\ Len(initLog) = 8
    /\ ~menuPresent /\ observed = Elements

\* position of a step in the order closeMenu, scrollTo, focus, pushState
StepRank(st) ==
    CASE st = "closeMenu" -> 1 [] st = "scrollTo" -> 2
      [] st = "updateFocus" -> 3 [] st = "pushState" -> 4

\* C17: a click on an anchor whose target resolves calls closeMenu first,
\* then scrollTo, then moves the focus, then pushState; with the menu's
\* elements present all four happen, and after the click the menu is
\* closed whatever it was before.
AnchorClickOrder ==
    (lastEvent.type = "click" /\ lastEvent.anchor \in Targets)
        => /\ effects # <<>> /\ effects[1] = "closeMenu"
           /\ \A i, j \in DOMAIN effects :
                 i < j => StepRank(effects[i]) < StepRank(effects[j])
           /\ ~MenuOpen(menu)
           /\ menuPresent => (Len(effects) = 4 /\ AllClosed(menu))

\* an anchor inside the open menu was clicked
AnchorClickOrderWitness ==
    /\ menuPresent
    /\ lastEvent.type = "click" /\ lastEvent.region = "menuOther"
    /\ lastEvent.anchor = "t1" /\ MenuOpen(lastEvent.menuBefore)
    /\ effects = <<"closeMenu", "scrollTo", "updateFocus", "pushState">>
    /\ AllClosed(menu) /\ focus = "t1" /\ locationHash = "t1"

\* C18: a tabindex attribute the markup gave a target is still there,
\* unchanged, whatever clicks and cleanup timers came; a target without one
\* has none or the transient '-1'.
TabindexKept ==
    \A t \in Targets :
        /\ tabindex0[t] # "none" => tabindex[t] = tabindex0[t]
        /\ tabindex0[t] = "none" => tabindex[t] \in {"none", "-1"}

\* an event none of the menu's listeners acts on
FrameEvent(e) ==
    \/ e.type = "resize" /\ e.n < 768
    \/ e.type = "keydown" /\ e.key # "Escape"
    \/ e.type = "click" /\ e.region = "menuOther" /\ e.anchor = "none"
    \/ e.type = "scroll"

\* C21: a resize below 768, a keydown of a key other than Escape, a click
\* inside the menu container that is on no link and no in-page anchor, and
\* a scroll leave aria-expanded, the class active, the icon and the body
\* overflow as they were, with the menu open or closed.
MenuFrame ==
    [][FrameEvent(lastEvent') => menu' = menu]_vars

\* the page was scrolled under the open menu
MenuFrameWitness ==
    /\ lastEvent.type = "scroll"
    /\ menuPresent /\ iconPresent
    /\ AllOpen(lastEvent.menuBefore) /\ AllOpen(menu)
    /\ pageYOffset = 301

====
